---- MODULE Spec2Model ----
(***************************************************************************)
(* A model of sync.py: one run of the Postgres -> WooCommerce part sync.    *)
(* The database and the remote REST API are the environment: every query    *)
(* result, every HTTP status and every response body is a nondeterministic  *)
(* choice from a bounded set.  The run itself is sequential; each action is *)
(* one blocking round trip (a query, a GET, a POST) together with the code  *)
(* that runs until the next round trip.                                     *)
(***************************************************************************)
EXTENDS Integers, Sequences, FiniteSets, TLC

VARIABLES
    catalog,        \* which environment the run faces: "small", "bulk" or "store"
    remote,         \* the products the remote holds (kept in the "store" environment)
    runs,           \* number of times the process has been started
    dry_run,        \* run(): argument dry_run
    pc,             \* position of the process inside __main__ / run()
    parts,          \* run(): parts
    m,              \* sku_id_map(): m
    page,           \* sku_id_map(): page (0 while sku_id_map is not running)
    existing,       \* run(): existing (None until sku_id_map has returned)
    create,         \* run(): create
    update,         \* run(): update
    i,              \* run(): loop variable i of the running push loop
    attempt,        \* push_batch(): loop variable attempt
    created_total,  \* run(): created_total
    updated_total,  \* run(): updated_total
    summary,        \* value returned by run() (None until it returns)
    error,          \* exception propagating out of run() (None if none)
    exit_code,      \* process exit status (-1 while the process runs)
    posted,         \* every POST /products/batch sent so far, with the status it got
    applied,        \* the write chunks the remote has accepted, in order
    ngets,          \* number of GET /products requests sent so far
    last_get        \* the remote's answer to the most recent GET /products

vars == <<catalog, remote, runs, dry_run, pc, parts, m, page, existing, create, update, i,
          attempt, created_total, updated_total, summary, error, exit_code,
          posted, applied, ngets, last_get>>

-----------------------------------------------------------------------------
(* Program constants *)

BATCH == 100

PerPage == 100

\* Attempts as range(4)
Attempts_Four == 3 + 1

Attempts == 3

(* Bounds of the model *)

\* rows of a small parts table
MaxRows == 2

\* GET /products requests in one run (in the "store" environment: 429
\* answers to them; the other answers end with the stored pages)
MaxGets == 4

\* products the remote holds when the first run starts, in the "store"
\* environment
MaxStore == 1

\* rows the remote of the "store" environment puts on one page
PageCap == 1

-----------------------------------------------------------------------------
(* Values *)

\* Python's None, for variables that hold records
None == [none |-> TRUE]

\* SQL NULL in a text column
NULL == "<NULL>"

\* SQL NULL in the integer column stock_qty (stored quantities are >= 0)
NULLINT == 0 - 1

Min(a, b) == IF a < b THEN a ELSE b

Digit == <<"0", "1", "2", "3", "4", "5", "6", "7", "8", "9">>

\* the n-th part number of the bulk catalogue: "P001", "P002", ...
Mpn(n) == "P" \o Digit[((n \div 100) % 10) + 1] \o Digit[((n \div 10) % 10) + 1]
              \o Digit[(n % 10) + 1]

\* the bulk catalogue fills two whole chunks and starts a third
BulkN == (2 * BATCH) + 1

SmallMpns == {"", "A1", "A2"}

BulkMpns == {Mpn(n) : n \in 1..BulkN}

\* every part number of the model, in the ascending order of ORDER BY mpn
MpnOrder == <<"", "A1", "A2">> \o [n \in 1..BulkN |-> Mpn(n)]

\* the columns (name, price, stock_qty) of a stored row
RowAttrs ==
    { [name |-> NULL,     price |-> "9.99", stock_qty |-> 0],
      [name |-> "Widget", price |-> "4.50", stock_qty |-> 3],
      [name |-> NULL,     price |-> "4.50", stock_qty |-> NULLINT],
      [name |-> "Widget", price |-> NULL,   stock_qty |-> 3] }

\* the parts table: a function from mpn (its key) to the other columns
Tables(cat) ==
    IF cat = "small"
    THEN UNION { [S -> RowAttrs] : S \in { T \in SUBSET SmallMpns : Cardinality(T) <= MaxRows } }
    ELSE IF cat = "store"
    THEN { [k \in S |-> [name |-> "Widget", price |-> "4.50", stock_qty |-> 3]] :
             S \in { T \in SUBSET SmallMpns : Cardinality(T) <= MaxRows } }
    ELSE { [k \in BulkMpns |-> [name |-> NULL, price |-> "4.50", stock_qty |-> 3]] }

\* values of --limit
Limits == {0 - 1, 0, 1, BATCH}

\* HTTP statuses the remote answers with
Statuses == {200, 429, 500}

\* product ids the remote reports for the small catalogue
RemoteIds == {0, 77}

\* a remote product row as the read endpoint lists it; sku may be absent
SmallRows ==
    { [id |-> d] : d \in RemoteIds }
    \cup { [id |-> d, sku |-> s] : d \in RemoteIds, s \in {"", "A1"} }

\* page n of the bulk remote catalogue: PerPage products carrying bulk SKUs
BulkPage(n) ==
    [j \in 1..PerPage |-> [id |-> 1000 + ((n - 1) * PerPage) + j,
                           sku |-> Mpn(((n - 1) * PerPage) + j)]]

\* the products the remote of the "store" environment can hold at the start
RECURSIVE StoresUpTo(_)
StoresUpTo(n) ==
    IF n = 0 THEN {<<>>}
    ELSE StoresUpTo(n - 1)
         \cup { Append(st, r) : st \in StoresUpTo(n - 1), r \in SmallRows }

Stores == StoresUpTo(MaxStore)

\* page n of a stored catalogue, as the read endpoint serves it
StorePage(rem, n) ==
    LET size == Min(PerPage, PageCap)
    IN  IF n < 1 \/ (n - 1) * size >= Len(rem) THEN <<>>
        ELSE SubSeq(rem, ((n - 1) * size) + 1, Min(n * size, Len(rem)))

\* a stored catalogue after a create chunk was accepted: every payload is
\* stored as a product under its SKU with a fresh id
Stored(rem, chunk) ==
    rem \o [j \in 1..Len(chunk) |-> [id |-> 100 + Len(rem) + j, sku |-> chunk[j].sku]]

\* the JSON arrays a page request can return
PageBodies(cat) ==
    IF cat = "store" THEN {StorePage(remote, page)}
    ELSE IF cat = "small"
    THEN {<<>>} \cup { <<r>> : r \in SmallRows }
         \cup { <<[id |-> 0, sku |-> "A1"], [id |-> 77, sku |-> "A1"]>>,
                <<[id |-> 77, sku |-> "A1"], [id |-> 0, sku |-> "A1"]>> }
    ELSE {<<>>, BulkPage(1), BulkPage(2)}

\* bodies of error responses
ErrBodies == {"{\"code\":\"woocommerce_rest_error\"}", "Bad Gateway"}

-----------------------------------------------------------------------------
(* Library semantics used by the code *)

\* requests.Response.ok: raise_for_status() raises for 400 <= status < 600
Ok(status) == ~(400 <= status /\ status < 600)

\* dict.get(k): the value, or None
DictGet(d, k) == IF k \in DOMAIN d THEN [some |-> TRUE, val |-> d[k]] ELSE [some |-> FALSE]

\* truth value of "if pid:" for an int or None
TruthyId(opt) == opt.some /\ opt.val # 0

\* TruthySku as "if sku is not None:"
TruthySku_NotNone(it) == "sku" \in DOMAIN it

\* truth value of "if sku:" for it.get("sku"), a string or None
TruthySku(it) == "sku" \in DOMAIN it /\ it.sku # ""

-----------------------------------------------------------------------------
(* fetch_parts *)

\* SELECT ... FROM parts WHERE price IS NOT NULL ORDER BY mpn [LIMIT limit]
fetch_parts(table, limit) ==
    LET keys == SelectSeq(MpnOrder,
                          LAMBDA k : k \in DOMAIN table /\ table[k].price # NULL)
        rows == [j \in 1..Len(keys) |->
                    [mpn       |-> keys[j],
                     name      |-> IF table[keys[j]].name = NULL
                                   THEN keys[j] ELSE table[keys[j]].name,
                     price     |-> table[keys[j]].price,
                     stock_qty |-> IF table[keys[j]].stock_qty = NULLINT
                                   THEN 0 ELSE table[keys[j]].stock_qty]]
    IN  IF limit > 0 THEN SubSeq(rows, 1, Min(limit, Len(rows))) ELSE rows

-----------------------------------------------------------------------------
(* sku_id_map *)

\* PageOutcome with r.raise_for_status() ahead of the 429 test
PageOutcome_RaiseFirst(status, rows) ==
    IF ~Ok(status) THEN "raise"
    ELSE IF rows = <<>> THEN "break"
    ELSE "next"

\* PageOutcome without r.raise_for_status()
PageOutcome_NoRaise(status, rows) ==
    IF status = 429 THEN "retry"
    ELSE IF rows = <<>> THEN "break"
    ELSE "next"

\* what one pass of the while loop does with the response to a page request
PageOutcome(status, rows) ==
    IF status = 429 THEN "retry"
    ELSE IF ~Ok(status) THEN "raise"
    ELSE IF rows = <<>> THEN "break"
    ELSE "next"

\* IndexRows with "m = {}" inside the while loop: every page starts a new index
IndexRows_Replaces(mm, rows) ==
    LET hits    == { j \in 1..Len(rows) : TruthySku(rows[j]) }
        of(s)   == { j \in hits : rows[j].sku = s }
        last(s) == CHOOSE j \in of(s) : \A k \in of(s) : k <= j
    IN  [s \in { rows[j].sku : j \in hits } |-> rows[last(s)].id]

\* for it in rows: sku = it.get("sku"); if sku: m[sku] = it["id"]
\* (assignments in row order: the last row carrying a SKU decides its id)
IndexRows(mm, rows) ==
    LET hits    == { j \in 1..Len(rows) : TruthySku(rows[j]) }
        of(s)   == { j \in hits : rows[j].sku = s }
        last(s) == CHOOSE j \in of(s) : \A k \in of(s) : k <= j
    IN  [s \in DOMAIN mm \cup { rows[j].sku : j \in hits } |->
            IF of(s) # {} THEN rows[last(s)].id ELSE mm[s]]

-----------------------------------------------------------------------------
(* to_payload and the reconcile loop of run() *)

\* to_payload with the test stock_qty >= 0
to_payload_GE(row) ==
    [name           |-> row.name,
     sku            |-> row.mpn,
     regular_price  |-> row.price,
     manage_stock   |-> TRUE,
     stock_quantity |-> row.stock_qty,
     stock_status   |-> IF row.stock_qty >= 0 THEN "instock" ELSE "outofstock"]

\* def to_payload(row): return {...}
to_payload(row) ==
    [name           |-> row.name,
     sku            |-> row.mpn,
     regular_price  |-> row.price,
     manage_stock   |-> TRUE,
     stock_quantity |-> row.stock_qty,
     stock_status   |-> IF row.stock_qty > 0 THEN "instock" ELSE "outofstock"]

\* the body of "for row in parts": the payload of the row and the list it is
\* appended to
Route(row, ex) ==
    LET payload == to_payload(row)
        pid     == DictGet(ex, row.mpn)
    IN  IF TruthyId(pid)
        THEN [list |-> "update", payload |-> ("id" :> pid.val) @@ payload]
        ELSE [list |-> "create", payload |-> payload]

\* Reconcile with create.append(payload) outside the else branch
Reconcile_AppendsAlways(ps, ex) ==
    LET routed == [k \in 1..Len(ps) |-> Route(ps[k], ex)]
        up     == SelectSeq(routed, LAMBDA r : r.list = "update")
    IN  [create |-> [k \in 1..Len(ps) |-> to_payload(ps[k])],
         update |-> [k \in 1..Len(up) |-> up[k].payload]]

\* Reconcile with create.insert(0, payload) in place of create.append(payload)
Reconcile_Prepends(ps, ex) ==
    LET routed   == [k \in 1..Len(ps) |-> Route(ps[k], ex)]
        of(kind) == SelectSeq(routed, LAMBDA r : r.list = kind)
        cr       == of("create")
        up       == of("update")
    IN  [create |-> [k \in 1..Len(cr) |-> cr[(Len(cr) + 1) - k].payload],
         update |-> [k \in 1..Len(up) |-> up[k].payload]]

\* create, update = [], []; for row in parts: ... (each list receives its
\* payloads by append, in the order of the rows)
Reconcile(ps, ex) ==
    LET routed   == [k \in 1..Len(ps) |-> Route(ps[k], ex)]
        of(kind) == SelectSeq(routed, LAMBDA r : r.list = kind)
        cr       == of("create")
        up       == of("update")
    IN  [create |-> [k \in 1..Len(cr) |-> cr[k].payload],
         update |-> [k \in 1..Len(up) |-> up[k].payload]]

-----------------------------------------------------------------------------
(* the push loops of run() and push_batch *)

\* Slice with the slice end one too far: list[i:i+BATCH+1]
Slice_OffByOne(list, k) == SubSeq(list, k + 1, Min(k + BATCH + 1, Len(list)))

\* list[i:i+BATCH]
Slice(list, k) == SubSeq(list, k + 1, Min(k + BATCH, Len(list)))

\* the list a push loop walks
ListOf(kind) == IF kind = "create" THEN create ELSE update

\* LoopHead with a break at the end of the body of the create loop
LoopHead_BreaksCreate(kind, k, cr, up) ==
    IF kind = "create" /\ k = 0 /\ k < Len(cr) THEN [pc |-> "create", i |-> k]
    ELSE IF kind = "create" /\ 0 < Len(up) THEN [pc |-> "update", i |-> 0]
    ELSE IF kind = "update" /\ k < Len(up) THEN [pc |-> "update", i |-> k]
    ELSE [pc |-> "summary", i |-> 0]

\* LoopHead with the create loop ranging over len(update)
LoopHead_CopyPaste(kind, k, cr, up) ==
    IF kind = "create" /\ k < Len(up) THEN [pc |-> "create", i |-> k]
    ELSE IF kind = "create" /\ 0 < Len(up) THEN [pc |-> "update", i |-> 0]
    ELSE IF kind = "update" /\ k < Len(up) THEN [pc |-> "update", i |-> k]
    ELSE [pc |-> "summary", i |-> 0]

\* where control rests once the loop heads from range position k of the loop
\* of `kind` have been evaluated: inside a loop body, or past both loops
RECURSIVE LoopHead(_, _, _, _)
LoopHead(kind, k, cr, up) ==
    IF kind = "create"
    THEN IF k < Len(cr) THEN [pc |-> "create", i |-> k]
         ELSE LoopHead("update", 0, cr, up)
    ELSE IF k < Len(up) THEN [pc |-> "update", i |-> k]
         ELSE [pc |-> "summary", i |-> 0]

\* PushOutcome that sleeps and retries on every failure, not only on 429
PushOutcome_RetriesErrors(att, status) ==
    IF status = 429 \/ ~Ok(status)
    THEN IF att + 1 < Attempts THEN "retry" ELSE "exhausted"
    ELSE "return"

\* PushOutcome without the fail-fast raise: a failure response is parsed
\* and returned like a success
PushOutcome_SwallowsErrors(att, status) ==
    IF status = 429
    THEN IF att + 1 < Attempts THEN "retry" ELSE "exhausted"
    ELSE "return"

\* PushOutcome without the raise after the loop: the last 429 is returned
PushOutcome_ExhaustedReturns(att, status) ==
    IF status = 429
    THEN IF att + 1 < Attempts THEN "retry" ELSE "return"
    ELSE IF Ok(status) THEN "return"
    ELSE "raise"

\* PushOutcome that goes on to the next attempt after a success as well
PushOutcome_RetriesSuccess(att, status) ==
    IF status = 429 \/ Ok(status)
    THEN IF att + 1 < Attempts THEN "retry" ELSE "exhausted"
    ELSE "raise"

\* what one pass of the for loop of push_batch does with the response
PushOutcome(att, status) ==
    IF status = 429
    THEN IF att + 1 < Attempts THEN "retry" ELSE "exhausted"
    ELSE IF Ok(status) THEN "return"
    ELSE "raise"

\* the JSON objects a successful batch write can return for a chunk: the
\* entries the remote processed under the kind key (all of the chunk, or,
\* in the small catalogue, any prefix of it), or no such key
Responses(cat, kind, chunk) ==
    {<<>>} \cup { (kind :> SubSeq(chunk, 1, n)) :
                    n \in IF cat = "small" THEN 0..Len(chunk) ELSE {Len(chunk)} }

\* RespCount as len(resp): the keys of the response object are counted
RespCount_CountsKeys(resp, kind) == Cardinality(DOMAIN resp)

\* len(resp.get(kind, []))
RespCount(resp, kind) == IF kind \in DOMAIN resp THEN Len(resp[kind]) ELSE 0

\* AfterPlan without the dry_run test
AfterPlan_IgnoresDryRun(dr, cr, up) == LoopHead("create", 0, cr, up)

\* if dry_run: ... return; otherwise the push loops start
AfterPlan(dr, cr, up) ==
    IF dr THEN [pc |-> "dry", i |-> 0] ELSE LoopHead("create", 0, cr, up)

-----------------------------------------------------------------------------
(* The run *)

\* the state of a process that has just been started
Started ==
    /\ pc = "fetch"
    /\ parts = <<>>
    /\ m = <<>>
    /\ page = 0
    /\ existing = None
    /\ create = <<>>
    /\ update = <<>>
    /\ i = 0
    /\ attempt = 0
    /\ created_total = 0
    /\ updated_total = 0
    /\ summary = None
    /\ error = None
    /\ exit_code = 0 - 1
    /\ posted = <<>>
    /\ applied = <<>>
    /\ ngets = 0
    /\ last_get = None

\* one run against a remote that holds a catalogue of products
StoreInit ==
    /\ catalog = "store"
    /\ remote \in Stores
    /\ runs = 1
    /\ dry_run \in BOOLEAN
    /\ Started

Init ==
    /\ catalog \in {"small", "bulk"}
    /\ remote = <<>>
    /\ runs = 1
    /\ dry_run \in BOOLEAN
    /\ pc = "fetch"
    /\ parts = <<>>
    /\ m = <<>>
    /\ page = 0
    /\ existing = None
    /\ create = <<>>
    /\ update = <<>>
    /\ i = 0
    /\ attempt = 0
    /\ created_total = 0
    /\ updated_total = 0
    /\ summary = None
    /\ error = None
    /\ exit_code = 0 - 1
    /\ posted = <<>>
    /\ applied = <<>>
    /\ ngets = 0
    /\ last_get = None

\* parts = fetch_parts(limit); sku_id_map() is entered
FetchParts ==
    /\ pc = "fetch"
    /\ \E table \in Tables(catalog), limit \in Limits :
          parts' = fetch_parts(table, limit)
    /\ pc' = "index"
    /\ m' = <<>>
    /\ page' = 1
    /\ UNCHANGED <<catalog, remote, runs, dry_run, existing, create, update, i, attempt,
                   created_total, updated_total, summary, error, exit_code,
                   posted, applied, ngets, last_get>>

\* psycopg.connect / cur.execute raises
FetchFail ==
    /\ pc = "fetch"
    /\ error' = [type |-> "psycopg.Error"]
    /\ pc' = "raised"
    /\ UNCHANGED <<catalog, remote, runs, dry_run, parts, m, page, existing, create, update, i,
                   attempt, created_total, updated_total, summary, exit_code,
                   posted, applied, ngets, last_get>>

\* the GET of one pass of the while loop of sku_id_map, answered by the remote
Get(status, rows) ==
    /\ pc = "index"
    /\ (catalog # "store" \/ status = 429) => ngets < MaxGets
    /\ ngets' = ngets + 1
    /\ last_get' = [page |-> page, status |-> status, nrows |-> Len(rows)]

\* 429: time.sleep(2); continue
GetRetry ==
    /\ \E status \in Statuses, rows \in PageBodies(catalog) :
          /\ Get(status, rows)
          /\ PageOutcome(status, rows) = "retry"
    /\ UNCHANGED <<catalog, remote, runs, dry_run, pc, parts, m, page, existing, create, update,
                   i, attempt, created_total, updated_total, summary, error,
                   exit_code, posted, applied>>

\* r.raise_for_status() raises
GetRaise ==
    /\ \E status \in Statuses, rows \in PageBodies(catalog) :
          /\ Get(status, rows)
          /\ PageOutcome(status, rows) = "raise"
          /\ error' = [type |-> "requests.HTTPError", status |-> status]
    /\ pc' = "raised"
    /\ UNCHANGED <<catalog, remote, runs, dry_run, parts, m, page, existing, create, update, i,
                   attempt, created_total, updated_total, summary, exit_code,
                   posted, applied>>

\* a page with rows: they are indexed and page += 1
GetNext ==
    /\ \E status \in Statuses, rows \in PageBodies(catalog) :
          /\ Get(status, rows)
          /\ PageOutcome(status, rows) = "next"
          /\ m' = IndexRows(m, rows)
    /\ page' = page + 1
    /\ UNCHANGED <<catalog, remote, runs, dry_run, pc, parts, existing, create, update, i,
                   attempt, created_total, updated_total, summary, error,
                   exit_code, posted, applied>>

\* an empty page: break; return m; existing = sku_id_map()
GetBreak ==
    /\ \E status \in Statuses, rows \in PageBodies(catalog) :
          /\ Get(status, rows)
          /\ PageOutcome(status, rows) = "break"
    /\ existing' = m
    /\ m' = <<>>
    /\ page' = 0
    /\ pc' = "plan"
    /\ UNCHANGED <<catalog, remote, runs, dry_run, parts, create, update, i, attempt,
                   created_total, updated_total, summary, error, exit_code,
                   posted, applied>>

\* the reconcile loop, up to the test of dry_run
Plan ==
    /\ pc = "plan"
    /\ LET r   == Reconcile(parts, existing)
           nxt == AfterPlan(dry_run, r.create, r.update)
       IN  /\ create' = r.create
           /\ update' = r.update
           /\ pc' = nxt.pc
           /\ i' = nxt.i
    /\ UNCHANGED <<catalog, remote, runs, dry_run, parts, m, page, existing, attempt,
                   created_total, updated_total, summary, error, exit_code,
                   posted, applied, ngets, last_get>>

\* return {"created": len(create), "updated": len(update), "dry_run": True}
DryReturn ==
    /\ pc = "dry"
    /\ summary' = [created |-> Len(create), updated |-> Len(update), dry_run |-> TRUE]
    /\ pc' = "returned"
    /\ UNCHANGED <<catalog, remote, runs, dry_run, parts, m, page, existing, create, update, i,
                   attempt, created_total, updated_total, error, exit_code,
                   posted, applied, ngets, last_get>>

\* the POST of one pass of the for loop of push_batch, answered by the remote
Post(status) ==
    /\ pc \in {"create", "update"}
    /\ LET body == (pc :> Slice(ListOf(pc), i))
       IN  posted' = Append(posted, [kind |-> pc, i |-> i, n |-> Len(body[pc]),
                                     attempt |-> attempt, status |-> status])

\* 429 with attempts left: time.sleep(2); continue
PostRetry ==
    /\ \E status \in Statuses :
          /\ Post(status)
          /\ PushOutcome(attempt, status) = "retry"
    /\ attempt' = attempt + 1
    /\ UNCHANGED <<catalog, remote, runs, dry_run, pc, parts, m, page, existing, create, update,
                   i, created_total, updated_total, summary, error, exit_code,
                   applied, ngets, last_get>>

\* 429 on the last attempt: raise RuntimeError("Woo batch failed after retries (429s)")
PostExhausted ==
    /\ \E status \in Statuses :
          /\ Post(status)
          /\ PushOutcome(attempt, status) = "exhausted"
    /\ error' = [type |-> "RuntimeError", msg |-> "Woo batch failed after retries (429s)"]
    /\ pc' = "raised"
    /\ UNCHANGED <<catalog, remote, runs, dry_run, parts, m, page, existing, create, update, i,
                   attempt, created_total, updated_total, summary, exit_code,
                   applied, ngets, last_get>>

\* any other failure: raise RuntimeError(f"Woo batch error {r.status_code}: {msg}")
PostRaise ==
    /\ \E status \in Statuses, text \in ErrBodies :
          /\ Post(status)
          /\ PushOutcome(attempt, status) = "raise"
          /\ error' = [type |-> "RuntimeError", msg |-> "Woo batch error",
                       status |-> status, body |-> text]
    /\ pc' = "raised"
    /\ UNCHANGED <<catalog, remote, runs, dry_run, parts, m, page, existing, create, update, i,
                   attempt, created_total, updated_total, summary, exit_code,
                   applied, ngets, last_get>>

\* r.ok: push_batch returns r.json(); the total grows and the loop moves on
PostReturn ==
    /\ \E status \in Statuses, resp \in Responses(catalog, pc, Slice(ListOf(pc), i)) :
          /\ Post(status)
          /\ PushOutcome(attempt, status) = "return"
          /\ IF pc = "create"
             THEN /\ created_total' = created_total + RespCount(resp, pc)
                  /\ UNCHANGED updated_total
             ELSE /\ updated_total' = updated_total + RespCount(resp, pc)
                  /\ UNCHANGED created_total
          /\ applied' = Append(applied,
                               [kind     |-> pc,
                                i        |-> i,
                                chunk    |-> Slice(ListOf(pc), i),
                                keyed    |-> pc \in DOMAIN resp,
                                reported |-> IF pc \in DOMAIN resp
                                             THEN Len(resp[pc]) ELSE 0])
    /\ remote' = IF catalog = "store" /\ pc = "create"
                 THEN Stored(remote, Slice(ListOf(pc), i))
                 ELSE remote
    /\ LET nxt == LoopHead(pc, i + BATCH, create, update)
       IN  /\ pc' = nxt.pc
           /\ i' = nxt.i
    /\ attempt' = 0
    /\ UNCHANGED <<catalog, runs, dry_run, parts, m, page, existing, create, update,
                   summary, error, exit_code, ngets, last_get>>

\* summary = {...}; return summary
Summary ==
    /\ pc = "summary"
    /\ summary' = [created |-> created_total, updated |-> updated_total,
                   dry_run |-> FALSE]
    /\ pc' = "returned"
    /\ UNCHANGED <<catalog, remote, runs, dry_run, parts, m, page, existing, create, update, i,
                   attempt, created_total, updated_total, error, exit_code,
                   posted, applied, ngets, last_get>>

\* __main__: run() returned, the process ends normally
MainExit ==
    /\ pc = "returned"
    /\ exit_code' = 0
    /\ pc' = "exit"
    /\ UNCHANGED <<catalog, remote, runs, dry_run, parts, m, page, existing, create, update, i,
                   attempt, created_total, updated_total, summary, error,
                   posted, applied, ngets, last_get>>

\* __main__: except Exception: print("ERROR:", e); sys.exit(1)
MainExcept ==
    /\ pc = "raised"
    /\ exit_code' = 1
    /\ pc' = "exit"
    /\ UNCHANGED <<catalog, remote, runs, dry_run, parts, m, page, existing, create, update, i,
                   attempt, created_total, updated_total, summary, error,
                   posted, applied, ngets, last_get>>

Next ==
    \/ FetchParts
    \/ FetchFail
    \/ GetRetry
    \/ GetRaise
    \/ GetNext
    \/ GetBreak
    \/ Plan
    \/ DryReturn
    \/ PostRetry
    \/ PostExhausted
    \/ PostRaise
    \/ PostReturn
    \/ Summary
    \/ MainExit
    \/ MainExcept

Spec == Init /\ [][Next]_vars

\* the process is started a second time after a completed non-dry run, over
\* the same parts table (fetch_parts returns the same rows) and the remote
\* as the first run left it
Rerun ==
    /\ catalog = "store"
    /\ runs = 1
    /\ pc = "exit"
    /\ exit_code = 0
    /\ ~dry_run
    /\ runs' = runs + 1
    /\ pc' = "index"
    /\ m' = <<>>
    /\ page' = 1
    /\ existing' = None
    /\ create' = <<>>
    /\ update' = <<>>
    /\ i' = 0
    /\ attempt' = 0
    /\ created_total' = 0
    /\ updated_total' = 0
    /\ summary' = None
    /\ exit_code' = 0 - 1
    /\ posted' = <<>>
    /\ applied' = <<>>
    /\ ngets' = 0
    /\ last_get' = None
    /\ UNCHANGED <<catalog, remote, dry_run, parts, error>>

StoreNext == Next \/ Rerun

\* some answer other than 429 comes to the page request
GetAnswered == GetRaise \/ GetNext \/ GetBreak

StoreSpec == StoreInit /\ [][StoreNext]_vars

\* the remote does not answer 429 to a page request forever
StoreFairSpec == StoreInit /\ [][StoreNext]_vars /\ WF_vars(GetAnswered)

-----------------------------------------------------------------------------
(* Vocabulary of the properties *)

\* the reconcile loop of this run has finished
Planned == existing # None /\ pc # "plan"

\* the reconcile loop of this run has just finished: nothing was done since
JustPlanned == Planned /\ posted = <<>> /\ pc \in {"dry", "create", "update", "summary"}

\* number of payloads of a list that carry a SKU
Count(list, sku) == Cardinality({ j \in 1..Len(list) : list[j].sku = sku })

\* ceil(n / d)
Ceil(n, d) == (n + d - 1) \div d

\* an HTTP status outside 2xx
NonSuccess(status) == ~(200 <= status /\ status < 300)

\* the q-th POST and the two before it went to one chunk and all got 429
ThreeRateLimits(q) ==
    /\ q >= 3
    /\ \A r \in (q - 2)..q :
          /\ posted[r].status = 429
          /\ posted[r].kind = posted[q].kind
          /\ posted[r].i = posted[q].i

\* the q-th POST ended its chunk fatally
FatalAt(q) ==
    \/ NonSuccess(posted[q].status) /\ posted[q].status # 429
    \/ ThreeRateLimits(q)

\* some POST of the run ended fatally
WriteFailed == \E q \in 1..Len(posted) : FatalAt(q)

\* the range offsets of the chunks of a list
Offsets(list) == { k \in 0..Len(list) : k < Len(list) /\ k % BATCH = 0 }

\* the offsets of the chunks of a kind that were posted, or accepted
PostedOffsets(kind) == { posted[q].i : q \in { r \in 1..Len(posted) : posted[r].kind = kind } }

AcceptedOffsets(kind) == { applied[q].i : q \in { r \in 1..Len(applied) : applied[r].kind = kind } }

\* this step is a GET of the pagination walk
GetStep == ngets' = ngets + 1

\* the last GET was answered with a 2xx status and an empty array
EmptyPageSeen == last_get # None /\ ~NonSuccess(last_get.status) /\ last_get.nrows = 0

\* the SKUs that the rows of a page carry, absent and empty ones left out
SkusOn(rows) ==
    { rows[j].sku : j \in { k \in 1..Len(rows) : "sku" \in DOMAIN rows[k] /\ rows[k].sku # "" } }

\* the rows on the pages 1..n of the stored catalogue
RowsUpTo(rem, n) == SubSeq(rem, 1, Min(Len(rem), n * Min(PerPage, PageCap)))

\* every key of an index is the SKU of one of the rows, with an id that row
\* has, and every SKU that one of the rows carries is a key
IndexOf(idx, rows) ==
    /\ \A s \in DOMAIN idx :
          \E j \in 1..Len(rows) :
              "sku" \in DOMAIN rows[j] /\ rows[j].sku = s /\ rows[j].id = idx[s]
    /\ SkusOn(rows) \subseteq DOMAIN idx

\* the sum, over the first q accepted chunks that are of a kind, of the
\* number of entries the remote reported under the kind key
RECURSIVE ReportedIn(_, _)
ReportedIn(q, kind) ==
    IF q = 0 THEN 0
    ELSE ReportedIn(q - 1, kind)
         + (IF applied[q].kind = kind THEN applied[q].reported ELSE 0)

Reported(kind) == ReportedIn(Len(applied), kind)

\* the q-th and the r-th POST carried the same chunk
SameChunk(q, r) == posted[q].kind = posted[r].kind /\ posted[q].i = posted[r].i

\* the POSTs that got a success response
Successes == { q \in 1..Len(posted) : ~NonSuccess(posted[q].status) }

\* the SKUs of a list of payloads, in the order of the list
SkuSeq(list) == [k \in 1..Len(list) |-> list[k].sku]

\* the part numbers of the parts whose payload is in a list, in the order of
\* the parts
MpnsIn(list) ==
    LET skus == { list[k].sku : k \in 1..Len(list) }
        rows == SelectSeq(parts, LAMBDA r : r.mpn \in skus)
    IN  [k \in 1..Len(rows) |-> rows[k].mpn]

\* the first q accepted chunks that are of a kind, one after the other
RECURSIVE AcceptedIn(_, _)
AcceptedIn(q, kind) ==
    IF q = 0 THEN <<>>
    ELSE AcceptedIn(q - 1, kind)
         \o (IF applied[q].kind = kind THEN applied[q].chunk ELSE <<>>)

\* a payload is what to_payload is specified to make of a part record: every
\* field but id is determined by the record
PayloadOf(p, row) ==
    /\ p.sku = row.mpn
    /\ p.stock_quantity = row.stock_qty
    /\ p.stock_status = "instock" <=> row.stock_qty > 0
    /\ p.stock_status \in {"instock", "outofstock"}
    /\ p.name = row.name
    /\ p.regular_price = row.price
    /\ p.manage_stock = TRUE
    /\ DOMAIN p \ {"id"} =
          {"name", "sku", "regular_price", "manage_stock", "stock_quantity", "stock_status"}

RateLimitError == [type |-> "RuntimeError", msg |-> "Woo batch failed after retries (429s)"]

BatchError(status, text) ==
    [type |-> "RuntimeError", msg |-> "Woo batch error", status |-> status, body |-> text]

-----------------------------------------------------------------------------
(* C1 -- Once the plan is made, a part's payload is in the update list exactly
   when the part's mpn is a key of the index built in this run, and in the
   create list otherwise, whatever id the index holds for the key. *)
C1_RoutedByKey ==
    Planned =>
        \A k \in 1..Len(parts) :
            /\ Count(update, parts[k].mpn) > 0 <=> parts[k].mpn \in DOMAIN existing
            /\ Count(create, parts[k].mpn) > 0 <=> parts[k].mpn \notin DOMAIN existing

(* C2 -- When the reconcile loop ends, every fetched part has its payload in
   exactly one of the two lists, and len(create) + len(update) = len(parts). *)
C2_PartitionTotal ==
    JustPlanned =>
        /\ Len(create) + Len(update) = Len(parts)
        /\ \A k \in 1..Len(parts) :
              Count(create, parts[k].mpn) + Count(update, parts[k].mpn) = 1

C2_Witness ==
    /\ JustPlanned
    /\ Len(create) >= 1
    /\ Len(update) >= 1

(* C3 -- In a non-dry run no update chunk is posted until every create chunk
   has been accepted, no create chunk is posted after an update chunk, and
   within a kind the POSTs walk the chunks in ascending order from offset 0:
   each POST repeats the chunk of the previous one (after a 429) or takes the
   very next chunk (after the previous one was accepted). *)
C3_DispatchOrder ==
    /\ \A q \in 1..Len(posted) :
          posted[q].kind = "update" =>
              /\ AcceptedOffsets("create") = Offsets(create)
              /\ \A r \in q..Len(posted) : posted[r].kind = "update"
    /\ \A q \in 1..Len(posted) :
          IF q = 1 \/ posted[q - 1].kind # posted[q].kind
          THEN posted[q].i = 0
          ELSE \/ posted[q - 1].status = 429 /\ posted[q].i = posted[q - 1].i
               \/ posted[q - 1].status # 429 /\ posted[q].i = posted[q - 1].i + BATCH

C3_Witness ==
    /\ \E q \in 1..Len(posted) : posted[q].kind = "create" /\ posted[q].i = BATCH
    /\ \E q \in 1..Len(posted) : posted[q].kind = "update" /\ posted[q].status = 429
    /\ posted[Len(posted)].kind = "update"
    /\ posted[Len(posted)].status = 200

(* C4 -- No chunk is ever posted more than 3 times, and when three POSTs in a
   row of one chunk got 429 the run has stopped there with the rate-limit
   exhaustion error, which is not the non-retryable write error. *)
C4_ThreeAttempts ==
    /\ \A q \in 1..Len(posted) :
          Cardinality({ r \in 1..Len(posted) :
                          /\ posted[r].kind = posted[q].kind
                          /\ posted[r].i = posted[q].i }) <= 3
    /\ \A q \in 1..Len(posted) :
          ThreeRateLimits(q) =>
              /\ q = Len(posted)
              /\ pc \in {"raised", "exit"}
              /\ error = RateLimitError
              /\ \A st \in Statuses, text \in ErrBodies : error # BatchError(st, text)

C4_Witness ==
    /\ Len(posted) >= 4
    /\ ThreeRateLimits(Len(posted))
    /\ pc = "exit"

(* C5 -- A POST answered with a non-success status other than 429, on the
   first, second or third attempt of its chunk, is the last POST of the run:
   the run has stopped there with the non-retryable error carrying that
   status and the response body. *)
C5_FailFast ==
    \A q \in 1..Len(posted) :
        (NonSuccess(posted[q].status) /\ posted[q].status # 429) =>
            /\ q = Len(posted)
            /\ pc \in {"raised", "exit"}
            /\ \E text \in ErrBodies : error = BatchError(posted[q].status, text)

C5_Witness ==
    /\ Len(posted) >= 3
    /\ posted[Len(posted)].status = 500
    /\ posted[Len(posted) - 1].status = 429
    /\ posted[Len(posted) - 2].status = 429
    /\ posted[Len(posted) - 2].i = posted[Len(posted)].i
    /\ posted[Len(posted) - 2].kind = posted[Len(posted)].kind

(* C6 -- No POST carries more than BATCH payloads, and when a non-dry run has
   returned its summary the distinct chunks posted for each kind number
   ceil(len(list) / BATCH), which is 0 for an empty list. *)
C6_ChunkBound ==
    /\ \A q \in 1..Len(posted) : posted[q].n <= BATCH
    /\ (summary # None /\ ~dry_run) =>
          /\ Cardinality(PostedOffsets("create")) = Ceil(Len(create), BATCH)
          /\ Cardinality(PostedOffsets("update")) = Ceil(Len(update), BATCH)

C6_Witness ==
    /\ summary # None
    /\ ~dry_run
    /\ Len(create) = (2 * BATCH) + 1
    /\ Cardinality(PostedOffsets("create")) = 3
    /\ update = <<>>
    /\ \E q \in 1..Len(posted) : posted[q].n = 1

(* C7 -- In a dry run no POST is ever sent and nothing is applied to the
   remote, and the summary returned is created = len(create),
   updated = len(update), dry_run = true. *)
C7_DryRun ==
    dry_run =>
        /\ posted = <<>>
        /\ applied = <<>>
        /\ (pc \in {"returned", "exit"} /\ error = None) =>
              summary = [created |-> Len(create), updated |-> Len(update),
                         dry_run |-> TRUE]

C7_Witness ==
    /\ dry_run
    /\ pc = "exit"
    /\ summary # None
    /\ Len(create) >= 1
    /\ Len(update) >= 1

(* C8 (as claimed) -- The two phases are independent failure domains: when
   the run has ended after a fatal failure on a create chunk, the update
   chunks have been dispatched all the same. *)
C8_IndependentDomains ==
    \A q \in 1..Len(posted) :
        (pc = "exit" /\ FatalAt(q) /\ posted[q].kind = "create") =>
            PostedOffsets("update") = Offsets(update)

(* C8 (amended) -- A fatal failure on a chunk stops the whole run: no later
   chunk of that kind is posted, and after a fatal failure on a create chunk
   no update chunk is posted at all.  Only what was done before is untouched:
   when an update chunk fails, every create chunk has been accepted. *)
C8_FailureAbortsRun ==
    \A q \in 1..Len(posted) :
        FatalAt(q) =>
            /\ pc \in {"raised", "exit"}
            /\ \A k \in PostedOffsets(posted[q].kind) : k <= posted[q].i
            /\ posted[q].kind = "create" => PostedOffsets("update") = {}
            /\ posted[q].kind = "update" => AcceptedOffsets("create") = Offsets(create)

C8_Witness ==
    /\ pc = "exit"
    /\ posted # <<>>
    /\ FatalAt(Len(posted))
    /\ posted[Len(posted)].kind = "create"
    /\ Len(create) > posted[Len(posted)].i + BATCH
    /\ Len(update) >= 1

(* C9 -- Once a POST has ended fatally the run is over with an error: no
   summary exists, and from then on no POST and no GET is sent, no summary is
   returned, and the chunks the remote accepted before stay applied as they
   are (one per successful POST, none taken back). *)
C9_FatalEndsRun ==
    /\ [](WriteFailed =>
            /\ summary = None
            /\ error # None
            /\ pc \in {"raised", "exit"}
            /\ Len(applied) = Cardinality({ q \in 1..Len(posted) :
                                              ~NonSuccess(posted[q].status) }))
    /\ [][WriteFailed =>
            /\ posted' = posted
            /\ ngets' = ngets
            /\ applied' = applied
            /\ summary' = None]_vars

C9_Witness ==
    /\ pc = "exit"
    /\ WriteFailed
    /\ Len(applied) >= 2
    /\ exit_code = 1

(* C10 -- A POST is sent only after fetch_parts has returned and the page walk
   has ended on a successful empty page; when fetch_parts fails, or a page
   request gets a non-success status other than 429, the run stops with an
   error, without any POST, and the index is never handed to the plan. *)
C10_ReadBeforeWrite ==
    /\ posted # <<>> =>
          /\ pc \notin {"fetch", "index", "plan"}
          /\ existing # None
          /\ last_get # None
          /\ ~NonSuccess(last_get.status)
          /\ last_get.nrows = 0
    /\ (last_get # None /\ NonSuccess(last_get.status) /\ last_get.status # 429) =>
          /\ pc \in {"raised", "exit"}
          /\ error # None
          /\ posted = <<>>
          /\ existing = None
          /\ create = <<>> /\ update = <<>>
          /\ summary = None
    /\ error = [type |-> "psycopg.Error"] =>
          /\ pc \in {"raised", "exit"}
          /\ posted = <<>>
          /\ ngets = 0
          /\ existing = None
          /\ summary = None

C10_Witness ==
    /\ pc = "exit"
    /\ last_get # None
    /\ last_get.status = 500
    /\ m # <<>>
    /\ Len(parts) >= 1

(* C11 -- In sku_id_map every GET asks for the current page; a 429 leaves the
   page number and the index as they were and the walk running, so the next
   GET asks for the same page again, however many 429s came before; the page
   number grows only by 1, and only on a successful page that has rows. *)
C11_RetrySamePage ==
    /\ [](last_get # None /\ last_get.status = 429 =>
            /\ pc = "index"
            /\ error = None
            /\ page = last_get.page)
    /\ [][ngets' # ngets =>
            /\ last_get'.page = page
            /\ last_get'.status = 429 => (page' = page /\ m' = m /\ pc' = "index")
            /\ (pc' = "index" /\ page' # page) =>
                  /\ page' = page + 1
                  /\ ~NonSuccess(last_get'.status)
                  /\ last_get'.nrows > 0
            /\ (~NonSuccess(last_get'.status) /\ last_get'.nrows > 0) =>
                  (page' = page + 1 /\ pc' = "index")]_vars

C11_Witness ==
    /\ ngets >= 4
    /\ last_get.status = 429
    /\ last_get.page = 1
    /\ pc = "index"

(* C12 -- The walk of sku_id_map goes on only while no successful empty page
   has come: the first one ends it, the index is returned, and no GET follows;
   it was reached through pages that all had rows.  A successful page raises
   nothing whatever its rows carry, a row with an absent or empty SKU adds no
   key, and so "" is never a key.  Against a remote that stores finitely many
   products and does not answer 429 forever, a walk that has begun ends. *)
C12_WalkEnds ==
    /\ [](pc = "index" => ~EmptyPageSeen)
    /\ []("" \notin DOMAIN m /\ (existing # None => "" \notin DOMAIN existing))
    /\ []((pc = "plan" /\ catalog = "store") =>
            /\ EmptyPageSeen
            /\ StorePage(remote, last_get.page) = <<>>
            /\ \A n \in 1..(last_get.page - 1) : StorePage(remote, n) # <<>>)
    /\ [][GetStep =>
            /\ pc = "index"
            /\ ~NonSuccess(last_get'.status) =>
                  /\ error' = None
                  /\ pc' = IF last_get'.nrows = 0 THEN "plan" ELSE "index"
                  /\ last_get'.nrows = 0 => existing' = m
                  /\ (last_get'.nrows > 0 /\ catalog = "store") =>
                        DOMAIN m' = DOMAIN m \cup SkusOn(StorePage(remote, page))]_vars
    /\ (pc = "index") ~> (pc # "index")

C12_Witness ==
    /\ runs = 2
    /\ pc = "plan"
    /\ existing = <<>>
    /\ last_get.page = 3
    /\ ngets > 3
    /\ \E j \in 1..Len(remote) : "sku" \notin DOMAIN remote[j]
    /\ \E j \in 1..Len(remote) : "sku" \in DOMAIN remote[j] /\ remote[j].sku = ""

(* C13 -- While the walk of sku_id_map runs, and when it returns, every key
   of the index is the SKU of a product row on a page fetched so far, mapped
   to an id that a row has with that SKU; and every SKU carried by a row on a
   fetched page is a key (a row whose sku is absent or "" carries no SKU). *)
C13_IndexIsObserved ==
    /\ (catalog = "store" /\ pc = "index") => IndexOf(m, RowsUpTo(remote, page - 1))
    /\ (catalog = "store" /\ pc = "plan") =>
          /\ RowsUpTo(remote, last_get.page) = remote
          /\ IndexOf(existing, remote)

C13_Witness ==
    /\ runs = 2
    /\ pc = "plan"
    /\ Len(remote) = 3
    /\ DOMAIN existing = {"A1", "A2"}
    /\ \E j, k \in 1..Len(remote) :
          /\ j < k
          /\ "sku" \in DOMAIN remote[j]
          /\ "sku" \in DOMAIN remote[k]
          /\ remote[j].sku = remote[k].sku
          /\ remote[j].id # remote[k].id

(* C14 -- Once the plan is made, a payload carries an id exactly when it is in
   the update list, which is exactly when its SKU is a key of the index built
   in this run; an update payload's id is the index's value for its SKU, and
   no create payload carries an id. *)
C14_IdIffFound ==
    JustPlanned =>
        /\ \A k \in 1..Len(update) :
              /\ "id" \in DOMAIN update[k]
              /\ update[k].sku \in DOMAIN existing
              /\ update[k].id = existing[update[k].sku]
        /\ \A k \in 1..Len(create) :
              /\ "id" \notin DOMAIN create[k]
              /\ create[k].sku \notin DOMAIN existing

(* C15 -- In a run that is not dry, the running totals are at every moment
   the sum, over the accepted chunks of the kind, of the number of entries
   the remote reported under the kind key, a response without the key
   counting 0; the summary of a completed run carries these sums, taken over
   all the chunks of each list, whatever the number of payloads sent. *)
C15_TotalsAreReported ==
    ~dry_run =>
        /\ created_total = Reported("create")
        /\ updated_total = Reported("update")
        /\ \A q \in 1..Len(applied) : ~applied[q].keyed => applied[q].reported = 0
        /\ summary # None =>
              /\ summary.created = Reported("create")
              /\ summary.updated = Reported("update")
              /\ AcceptedOffsets("create") = Offsets(create)
              /\ AcceptedOffsets("update") = Offsets(update)

C15_Witness ==
    /\ ~dry_run
    /\ summary # None
    /\ Len(create) = 1
    /\ Len(update) = 1
    /\ ~applied[1].keyed
    /\ summary.created = 0
    /\ summary.updated = 1

(* C16 -- Among the POSTs of a run, a chunk gets at most one success
   response and is not posted again after a success; the accepted chunks are
   the POSTs that succeeded, so a 429 applied nothing; two different chunks
   of a list cover disjoint positions of it, and no SKU is in both lists. *)
C16_NoDuplicateEffects ==
    /\ \A q, r \in 1..Len(posted) :
          /\ (q < r /\ SameChunk(q, r)) => NonSuccess(posted[q].status)
          /\ (q # r /\ SameChunk(q, r)) => ~(q \in Successes /\ r \in Successes)
          /\ (posted[q].kind = posted[r].kind /\ posted[q].i < posted[r].i) =>
                posted[q].i + posted[q].n <= posted[r].i
    /\ Len(applied) = Cardinality(Successes)
    /\ \A q \in 1..Len(applied) :
          \E r \in Successes : posted[r].kind = applied[q].kind /\ posted[r].i = applied[q].i
    /\ JustPlanned =>
          { create[k].sku : k \in 1..Len(create) } \cap { update[k].sku : k \in 1..Len(update) } = {}

C16_Witness ==
    /\ Len(posted) >= 4
    /\ posted[1].status = 429
    /\ posted[2].status = 429
    /\ posted[3].status = 200
    /\ SameChunk(1, 3)
    /\ posted[4].kind = posted[1].kind
    /\ posted[4].i = posted[1].i + BATCH
    /\ Len(applied) >= 1

(* C17 -- In every state of a run that is not dry, the failure states
   included, the accepted chunks are, in the order of acceptance, the create
   chunks of offsets 0, BATCH, 2*BATCH, ... up to some point, followed, only
   if every create chunk is among them, by the update chunks of offsets
   0, BATCH, ... up to some point; a dry run has none. *)
C17_PrefixOfCreateThenUpdate ==
    LET nc == Cardinality(Offsets(create))
    IN  /\ dry_run => applied = <<>>
        /\ \A q \in 1..Len(applied) :
              /\ applied[q].chunk = Slice(ListOf(applied[q].kind), applied[q].i)
              /\ applied[q].kind = "create" =>
                    /\ q <= nc
                    /\ applied[q].i = (q - 1) * BATCH
              /\ applied[q].kind = "update" =>
                    /\ q > nc
                    /\ applied[q].i = (q - 1 - nc) * BATCH
                    /\ applied[q].i < Len(update)
                    /\ AcceptedOffsets("create") = Offsets(create)

C17_Witness ==
    /\ pc = "raised"
    /\ WriteFailed
    /\ Len(applied) = 1
    /\ applied[1].kind = "create"
    /\ Cardinality(Offsets(create)) = 2
    /\ Len(update) > 0

(* C18 -- When the reconcile loop ends, the payloads of the create list and of
   the update list are each in the order in which their parts stand in the
   fetched sequence; when a run that is not dry has completed, the chunks
   accepted for a kind, put one after the other in the order of posting, are
   that kind's list. *)
C18_StablePartition ==
    /\ JustPlanned =>
          /\ SkuSeq(create) = MpnsIn(create)
          /\ SkuSeq(update) = MpnsIn(update)
    /\ (summary # None /\ ~dry_run) =>
          /\ AcceptedIn(Len(applied), "create") = create
          /\ AcceptedIn(Len(applied), "update") = update

C18_Witness ==
    /\ summary # None
    /\ ~dry_run
    /\ Len(applied) = 3
    /\ Len(create) = BATCH + 1
    /\ Len(update) = BATCH
    /\ create[BATCH + 1].sku = Mpn(BulkN)
    /\ update[1].sku = Mpn(BATCH + 1)

(* C19 -- When the reconcile loop ends, every fetched part has a payload whose
   sku is its mpn, whose stock_quantity is its stock_qty and whose
   stock_status is "instock" exactly when stock_qty > 0 ("outofstock" at 0);
   every field of the payload but id is determined by the part record, so
   equal records give equal payloads. *)
C19_PayloadOfPart ==
    JustPlanned =>
        \A k \in 1..Len(parts) :
            \E list \in {create, update} :
                \E j \in 1..Len(list) : PayloadOf(list[j], parts[k])

C19_Witness ==
    /\ JustPlanned
    /\ Len(parts) = 2
    /\ parts[1].stock_qty = 0
    /\ parts[2].stock_qty > 0
    /\ \E j \in 1..Len(create) :
          create[j].sku = parts[1].mpn /\ create[j].stock_status = "outofstock"
    /\ \E j \in 1..Len(update) :
          update[j].sku = parts[2].mpn /\ update[j].stock_status = "instock"

(* C20 -- A second run, started after a completed run that was not dry, over
   the same parts and the remote as the first run left it (every accepted
   create payload stored under its SKU with a fresh id), plans an empty
   create list and sends every part to update, a part whose mpn is the empty
   string included. *)
C20_RerunCreatesNothing ==
    (runs = 2 /\ JustPlanned) =>
        /\ create = <<>>
        /\ Len(update) = Len(parts)

====
